---------------------------- MODULE Spec2Model ----------------------------
(***************************************************************************)
(* Model of Arbol_Max_Min.py: the UnionFind class (find with path          *)
(* compression, union by rank) and the kruskal function (minimum / maximum *)
(* cost spanning tree).                                                    *)
(*                                                                         *)
(* Two specifications share the variables parent and rank:                 *)
(*   SpecUF : a UnionFind object driven by arbitrary find / union calls;   *)
(*   Spec   : one call of kruskal(aristas, tipo), one loop iteration per   *)
(*            step.                                                        *)
(***************************************************************************)
EXTENDS Integers, Sequences, FiniteSets, TLC

VARIABLES
    parent,         \* UnionFind.parent : element -> element
    rank,           \* UnionFind.rank   : element -> Nat
    last,           \* SpecUF: the last call, its result and the state before it
    prev,           \* SpecUF: summary of the call before the last one
    comp,           \* SpecUF: ghost, element -> elements linked by union pairs
    aristas,        \* kruskal: the argument aristas, a sequence of <<u, v, w>>
    tipo,           \* kruskal: the argument tipo, "min" or "max"
    nodos,          \* kruskal: the local nodos
    aristas_ordenadas, \* kruskal: the local aristas_ordenadas
    idx,            \* kruskal: number of edges of aristas_ordenadas examined
    arbol,          \* kruskal: the local arbol
    coste_total,    \* kruskal: the local coste_total
    pc,             \* kruskal: "start", "loop" or "done"
    outcome,        \* kruskal: "running" or "returned"
    result          \* kruskal: the returned value

kvars == <<aristas, tipo, nodos, aristas_ordenadas, idx, arbol, coste_total,
           pc, outcome, result>>
vars == <<parent, rank, last, prev, comp, aristas, tipo, nodos,
          aristas_ordenadas, idx, arbol, coste_total, pc, outcome, result>>

(***************************************************************************)
(* Bounds.                                                                 *)
(***************************************************************************)
\* Number of elements of the UnionFind object of SpecUF.
NumElems == 4
\* Longest edge list drawn from SampleEdges in Spec.
MaxEdges == 3

(***************************************************************************)
(* class UnionFind                                                         *)
(***************************************************************************)

\* UnionFind.__init__: every element is its own parent, with rank 0.
InitParent(elementos) == [x \in elementos |-> x]

InitRank(elementos) == [x \in elementos |-> 0]

\* Variant of find that returns the parent read before the path is compressed.
RECURSIVE FindStaleReturn(_, _)
FindStaleReturn(p, x) ==
    IF p[x] # x
    THEN LET r == FindStaleReturn(p, p[x])
             q == [r.parent EXCEPT ![x] = r.ret]
         IN  [parent |-> q, ret |-> p[x]]
    ELSE [parent |-> p, ret |-> p[x]]

\* UnionFind.find(x) on the parent mapping p: the mapping after the call and
\* the value returned.  The recursive call runs first (it compresses the
\* path above x), then parent[x] is assigned its result, then parent[x] is
\* returned.
RECURSIVE Find(_, _)
Find(p, x) ==
    IF p[x] # x
    THEN LET r == Find(p, p[x])
             q == [r.parent EXCEPT ![x] = r.ret]
         IN  [parent |-> q, ret |-> q[x]]
    ELSE [parent |-> p, ret |-> p[x]]

\* Variant of the link that forgets the rank increment of an equal-rank merge.
LinkNoIncrement(p, rk, rx, ry) ==
    IF rk[rx] < rk[ry]
    THEN [parent |-> [p EXCEPT ![rx] = ry], rank |-> rk]
    ELSE [parent |-> [p EXCEPT ![ry] = rx], rank |-> rk]

\* Variant of the link with the rank comparison reversed: the higher-rank
\* root goes under the lower-rank one.
LinkReversed(p, rk, rx, ry) ==
    IF rk[rx] > rk[ry]
    THEN [parent |-> [p EXCEPT ![rx] = ry], rank |-> rk]
    ELSE IF rk[rx] < rk[ry]
    THEN [parent |-> [p EXCEPT ![ry] = rx], rank |-> rk]
    ELSE [parent |-> [p EXCEPT ![ry] = rx],
          rank |-> [rk EXCEPT ![rx] = rk[rx] + 1]]

\* The link made by union once the two roots rx # ry are known.
Link(p, rk, rx, ry) ==
    IF rk[rx] < rk[ry]
    THEN [parent |-> [p EXCEPT ![rx] = ry], rank |-> rk]
    ELSE IF rk[rx] > rk[ry]
    THEN [parent |-> [p EXCEPT ![ry] = rx], rank |-> rk]
    ELSE [parent |-> [p EXCEPT ![ry] = rx],
          rank |-> [rk EXCEPT ![rx] = rk[rx] + 1]]

\* Variant of union without the early return on equal roots.
UnionNoEarlyReturn(p, rk, x, y) ==
    LET fx == Find(p, x)
        fy == Find(fx.parent, y)
        l == Link(fy.parent, rk, fx.ret, fy.ret)
    IN  [parent |-> l.parent, rank |-> l.rank, ret |-> TRUE]

\* Variant of union that links the arguments themselves, not their roots.
UnionLinkArgs(p, rk, x, y) ==
    LET fx == Find(p, x)
        fy == Find(fx.parent, y)
    IN  IF fx.ret = fy.ret
        THEN [parent |-> fy.parent, rank |-> rk, ret |-> FALSE]
        ELSE [parent |-> [fy.parent EXCEPT ![y] = x], rank |-> rk, ret |-> TRUE]

\* UnionFind.union(x, y): the mappings after the call and the value returned.
Union(p, rk, x, y) ==
    LET fx == Find(p, x)
        fy == Find(fx.parent, y)
        rx == fx.ret
        ry == fy.ret
    IN  IF rx = ry
        THEN [parent |-> fy.parent, rank |-> rk, ret |-> FALSE]
        ELSE LET l == Link(fy.parent, rk, rx, ry)
             IN  [parent |-> l.parent, rank |-> l.rank, ret |-> TRUE]

(***************************************************************************)
(* Mathematical notions used to state properties (not code).               *)
(***************************************************************************)

\* The elements met when following parent links from x, x included, giving up
\* after n links.
RECURSIVE Chain(_, _, _)
Chain(p, x, n) ==
    IF p[x] = x \/ n = 0 THEN {x} ELSE {x} \cup Chain(p, p[x], n - 1)

\* The element reached from x after n parent links.
RECURSIVE Walk(_, _, _)
Walk(p, x, n) == IF n = 0 THEN x ELSE Walk(p, p[x], n - 1)

\* Following parent links from x reaches a root without revisiting an element.
ReachesRoot(p, x) ==
    \E n \in 0..(Cardinality(DOMAIN p) - 1) :
        /\ p[Walk(p, x, n)] = Walk(p, x, n)
        /\ \A i, j \in 0..n : i # j => Walk(p, x, i) # Walk(p, x, j)

\* The root above x (p is a forest).
RootOf(p, x) ==
    CHOOSE r \in Chain(p, x, Cardinality(DOMAIN p)) : p[r] = r

(***************************************************************************)
(* SpecUF: a UnionFind over Elems, any sequence of find and union calls.   *)
(***************************************************************************)
Elems == 1..NumElems

NoCall == [op |-> "none", x |-> 0, y |-> 0, ret |-> 0,
           preParent |-> InitParent(Elems), preRank |-> InitRank(Elems)]

NoPrev == [op |-> "none", x |-> 0, ret |-> 0, changed |-> FALSE]

Summary(c, p) ==
    IF c.op = "find"
    THEN [op |-> "find", x |-> c.x, ret |-> c.ret, changed |-> (p # c.preParent)]
    ELSE [op |-> c.op, x |-> 0, ret |-> 0, changed |-> FALSE]

KIdle ==
    /\ aristas = <<>>
    /\ tipo = "min"
    /\ nodos = {}
    /\ aristas_ordenadas = <<>>
    /\ idx = 0
    /\ arbol = <<>>
    /\ coste_total = 0
    /\ pc = "idle"
    /\ outcome = "running"
    /\ result = <<>>

InitUF ==
    /\ parent = InitParent(Elems)
    /\ rank = InitRank(Elems)
    /\ last = NoCall
    /\ prev = NoPrev
    /\ comp = [x \in Elems |-> {x}]
    /\ KIdle

\* A call uf.find(x).
FindCall(x) ==
    LET f == Find(parent, x)
    IN  /\ parent' = f.parent
        /\ rank' = rank
        /\ last' = [op |-> "find", x |-> x, y |-> x, ret |-> f.ret,
                    preParent |-> parent, preRank |-> rank]
        /\ prev' = Summary(last, parent)
        /\ comp' = comp
        /\ UNCHANGED kvars

\* A call uf.union(x, y).
UnionCall(x, y) ==
    LET u == Union(parent, rank, x, y)
    IN  /\ parent' = u.parent
        /\ rank' = u.rank
        /\ last' = [op |-> "union", x |-> x, y |-> y, ret |-> u.ret,
                    preParent |-> parent, preRank |-> rank]
        /\ prev' = Summary(last, parent)
        /\ comp' = [v \in Elems |->
                      IF v \in comp[x] \cup comp[y]
                      THEN comp[x] \cup comp[y] ELSE comp[v]]
        /\ UNCHANGED kvars

NextUF ==
    \/ \E x \in Elems : FindCall(x)
    \/ \E x, y \in Elems : UnionCall(x, y)

SpecUF == InitUF /\ [][NextUF]_vars

(***************************************************************************)
(* def kruskal(aristas, tipo)                                              *)
(***************************************************************************)

\* The set nodos built from the endpoints of aristas.
Nodos(ar) == {ar[i][1] : i \in DOMAIN ar} \cup {ar[i][2] : i \in DOMAIN ar}

\* e goes before f in the order of sorted(..., key=peso) for tipo "min", and
\* of sorted(..., key=peso, reverse=True) otherwise.
Before(e, f, t) == IF t = "min" THEN e[3] < f[3] ELSE e[3] > f[3]

\* s (sorted) with e put after every element that does not go after it: the
\* elements of equal weight keep their input order (sorted is stable, also
\* with reverse=True).
RECURSIVE Insert(_, _, _)
Insert(s, e, t) ==
    IF s = <<>> THEN <<e>>
    ELSE IF Before(e, Head(s), t) THEN <<e>> \o s
    ELSE <<Head(s)>> \o Insert(Tail(s), e, t)

RECURSIVE InsertAll(_, _, _)
InsertAll(s, ar, t) ==
    IF ar = <<>> THEN s ELSE InsertAll(Insert(s, Head(ar), t), Tail(ar), t)

\* Variant of the sort that ignores tipo and always sorts ascending.
SortAscending(ar, t) == InsertAll(<<>>, ar, "min")

\* aristas_ordenadas.
SortAristas(ar, t) == InsertAll(<<>>, ar, t)

\* print_componentes(uf, nodos): uf.find(n) for every n of S.  Whatever the
\* iteration order of the set, every element ends pointing to its root.
RECURSIVE CompressAll(_, _)
CompressAll(p, S) ==
    IF S = {} THEN p
    ELSE LET n == CHOOSE m \in S : TRUE
         IN  CompressAll(Find(p, n).parent, S \ {n})

\* Variant of the loop body that accepts every edge without the cycle test.
ProbarSinCiclo(p, rk, ar, c, e) ==
    LET u == Union(p, rk, e[1], e[2])
    IN  [parent |-> u.parent, rank |-> u.rank,
         arbol |-> Append(ar, e), coste_total |-> c + e[3]]

\* The body of the loop over aristas_ordenadas for the edge e = (u, v, w), up
\* to the accept / reject decision.
Probar(p, rk, ar, c, e) ==
    LET fu == Find(p, e[1])
        fv == Find(fu.parent, e[2])
    IN  IF fu.ret # fv.ret
        THEN LET u == Union(fv.parent, rk, e[1], e[2])
             IN  [parent |-> u.parent, rank |-> u.rank,
                  arbol |-> Append(ar, e), coste_total |-> c + e[3]]
        ELSE [parent |-> fv.parent, rank |-> rk,
              arbol |-> ar, coste_total |-> c]

\* grafo_ejemplo().
grafo_ejemplo ==
    << <<"A", "B", 4>>, <<"A", "C", 2>>, <<"B", "C", 5>>, <<"B", "D", 10>>,
       <<"C", "D", 3>>, <<"C", "E", 4>>, <<"D", "E", 11>>, <<"D", "F", 2>>,
       <<"E", "F", 1>> >>

(***************************************************************************)
(* Spec: one call kruskal(aristas, tipo).                                  *)
(***************************************************************************)

\* Endpoint pairs of the sample edges: a triangle A, B, C, a self-loop and a
\* pendant node D.  A list may repeat a pair (parallel edges).
SamplePairs ==
    { <<"A", "B">>, <<"B", "C">>, <<"C", "A">>, <<"C", "C">>, <<"C", "D">> }

SampleWeights == {-1, 1, 2}

SampleEdges == {<<q[1], q[2], w>> : q \in SamplePairs, w \in SampleWeights}

\* The edge lists kruskal is called with: every list of at most MaxEdges
\* sample edges (the empty list included) and the example graph.
Inputs ==
    UNION {[1..n -> SampleEdges] : n \in 0..MaxEdges} \cup {grafo_ejemplo}

NoResult == [arbol |-> <<>>, coste_total |-> 0]

UFIdle ==
    /\ last = NoCall
    /\ prev = NoPrev
    /\ comp = [x \in Elems |-> {x}]

Init ==
    /\ aristas \in Inputs
    /\ tipo \in {"min", "max"}
    /\ nodos = {}
    /\ aristas_ordenadas = <<>>
    /\ parent = <<>>
    /\ rank = <<>>
    /\ idx = 0
    /\ arbol = <<>>
    /\ coste_total = 0
    /\ pc = "start"
    /\ outcome = "running"
    /\ result = NoResult
    /\ UFIdle

\* From the entry of kruskal to the start of the loop: nodos, the sort, the
\* UnionFind, arbol, coste_total, and the first print_componentes.
Begin ==
    /\ pc = "start"
    /\ nodos' = Nodos(aristas)
    /\ aristas_ordenadas' = SortAristas(aristas, tipo)
    /\ parent' = CompressAll(InitParent(Nodos(aristas)), Nodos(aristas))
    /\ rank' = InitRank(Nodos(aristas))
    /\ arbol' = <<>>
    /\ coste_total' = 0
    /\ idx' = 0
    /\ pc' = "loop"
    /\ UNCHANGED <<aristas, tipo, outcome, result, last, prev, comp>>

\* One iteration of the loop, print_componentes at its end included.
Step ==
    /\ pc = "loop"
    /\ idx < Len(aristas_ordenadas)
    /\ LET r == Probar(parent, rank, arbol, coste_total,
                       aristas_ordenadas[idx + 1])
       IN  /\ parent' = CompressAll(r.parent, nodos)
           /\ rank' = r.rank
           /\ arbol' = r.arbol
           /\ coste_total' = r.coste_total
    /\ idx' = idx + 1
    /\ UNCHANGED <<aristas, tipo, nodos, aristas_ordenadas, pc, outcome,
                   result, last, prev, comp>>

\* The loop is over: return arbol, coste_total.
Return ==
    /\ pc = "loop"
    /\ idx = Len(aristas_ordenadas)
    /\ result' = [arbol |-> arbol, coste_total |-> coste_total]
    /\ outcome' = "returned"
    /\ pc' = "done"
    /\ UNCHANGED <<aristas, tipo, nodos, aristas_ordenadas, parent, rank, idx,
                   arbol, coste_total, last, prev, comp>>

Next == Begin \/ Step \/ Return

Spec == Init /\ [][Next]_vars


(***************************************************************************)
(* Graph notions used to state the properties of kruskal (not code).  An   *)
(* edge set is a set of indices into the edge list ar.                     *)
(***************************************************************************)

\* S and the nodes one edge of E away from S.
Grow(ar, E, S) ==
    S \cup {ar[i][2] : i \in {j \in E : ar[j][1] \in S}}
      \cup {ar[i][1] : i \in {j \in E : ar[j][2] \in S}}

\* The nodes joined to a node of S by a chain of edges of E.
RECURSIVE ReachFrom(_, _, _)
ReachFrom(ar, E, S) ==
    IF Grow(ar, E, S) = S THEN S ELSE ReachFrom(ar, E, Grow(ar, E, S))

Joined(ar, E, a, b) == b \in ReachFrom(ar, E, {a})

\* The input graph is connected.
Connected(ar) ==
    \A a, b \in Nodos(ar) : Joined(ar, DOMAIN ar, a, b)

\* No edge of F closes a cycle with the other edges of F.
Acyclic(ar, F) ==
    \A i \in F :
        /\ ar[i][1] # ar[i][2]
        /\ ~Joined(ar, F \ {i}, ar[i][1], ar[i][2])

\* The spanning forests of the graph: the acyclic edge sets that connect
\* each connected component of the graph (every node reaches through F all
\* the nodes it reaches in the whole graph).
SpanningForests(ar) ==
    {F \in SUBSET DOMAIN ar :
        /\ Acyclic(ar, F)
        /\ \A a \in Nodos(ar) :
              ReachFrom(ar, F, {a}) = ReachFrom(ar, DOMAIN ar, {a})}

\* Total weight of the edge set F.
RECURSIVE Weight(_, _)
Weight(ar, F) ==
    IF F = {} THEN 0
    ELSE LET i == CHOOSE j \in F : TRUE
         IN  ar[i][3] + Weight(ar, F \ {i})

(***************************************************************************)
(* Properties of kruskal, checked under Spec.                              *)
(***************************************************************************)

\* kruskal has returned.
Done == pc = "done" /\ outcome = "returned"

\* C1: for every non-empty edge list, the total cost returned in mode "min"
\* is <= the total weight of every spanning forest of the graph, and the
\* total cost returned in mode "max" is >= the weight of every one.
C1_OptimalCost ==
    (Done /\ aristas # <<>>) =>
        \A F \in SpanningForests(aristas) :
            IF tipo = "min"
            THEN result.coste_total <= Weight(aristas, F)
            ELSE result.coste_total >= Weight(aristas, F)

\* A "max" run that rejected an edge, on a graph with a spanning forest of
\* strictly smaller weight than the cost returned.
C1_Witness ==
    /\ Done
    /\ tipo = "max"
    /\ Len(result.arbol) < Len(aristas)
    /\ \E F \in SpanningForests(aristas) :
          Weight(aristas, F) < result.coste_total

\* C2 as stated: at every point of a run the number of accepted edges is at
\* most |vertices| - 1, and when the run ends it equals |vertices| - 1 if
\* and only if the input graph is connected.
C2_AcceptedCount ==
    /\ pc \in {"loop", "done"} =>
          Len(arbol) <= Cardinality(Nodos(aristas)) - 1
    /\ Done =>
          ((Len(result.arbol) = Cardinality(Nodos(aristas)) - 1)
              <=> Connected(aristas))

\* The statement of C2 for the runs on a non-empty edge list.
C2_AcceptedCountNonEmpty == aristas # <<>> => C2_AcceptedCount

\* A finished run on a disconnected graph with strictly fewer than
\* |vertices| - 1 accepted edges.
C2_WitnessNonEmpty ==
    /\ Done
    /\ aristas # <<>>
    /\ ~Connected(aristas)
    /\ Len(result.arbol) < Cardinality(Nodos(aristas)) - 1

\* C5 as stated: on the example graph, "min" accepts exactly 5 edges with
\* total cost 12 and "max" accepts exactly 5 edges with total cost 35.
C5_ExampleAsStated ==
    (Done /\ aristas = grafo_ejemplo) =>
        /\ Len(result.arbol) = 5
        /\ result.coste_total = (IF tipo = "min" THEN 12 ELSE 35)

\* C5 amended: on the example graph, "min" accepts exactly 5 edges with total
\* cost 12 and "max" accepts exactly 5 edges with total cost 32.
C5_Example ==
    (Done /\ aristas = grafo_ejemplo) =>
        /\ Len(result.arbol) = 5
        /\ result.coste_total = (IF tipo = "min" THEN 12 ELSE 32)

\* The "max" run on the example graph has returned: D-E, B-D, B-C, A-B, D-F.
C5_Witness ==
    /\ Done
    /\ aristas = grafo_ejemplo
    /\ tipo = "max"
    /\ result.arbol = << <<"D", "E", 11>>, <<"B", "D", 10>>, <<"B", "C", 5>>,
                         <<"A", "B", 4>>, <<"D", "F", 2>> >>

\* C6: called with an empty edge list, kruskal fails with EmptyGraphError
\* instead of returning a tree and a total cost.
C6_EmptyGraphError ==
    (pc = "done" /\ aristas = <<>>) => outcome = "EmptyGraphError"

\* What the call on an empty edge list does: it returns an empty tree and a
\* total cost of 0.
C6_EmptyReturns ==
    (pc = "done" /\ aristas = <<>>) =>
        /\ outcome = "returned"
        /\ result = [arbol |-> <<>>, coste_total |-> 0]

\* C7: on a disconnected graph kruskal examines every edge and the result it
\* returns reports connected = false; for [(A,B,1),(C,D,2)] the result has
\* connected = false, 2 accepted edges and total cost 3.
C7_DisconnectedReported ==
    (Done /\ ~Connected(aristas)) =>
        /\ idx = Len(aristas)
        /\ "connected" \in DOMAIN result
        /\ result.connected = FALSE
        /\ aristas = << <<"A", "B", 1>>, <<"C", "D", 2>> >> =>
              (Len(result.arbol) = 2 /\ result.coste_total = 3)

\* The part of C7 the returned value does satisfy: every edge is examined,
\* the value returned holds arbol and coste_total only, and for
\* [(A,B,1),(C,D,2)] it has 2 accepted edges and total cost 3.
C7_DisconnectedReturned ==
    (Done /\ ~Connected(aristas)) =>
        /\ idx = Len(aristas)
        /\ DOMAIN result = {"arbol", "coste_total"}
        /\ aristas = << <<"A", "B", 1>>, <<"C", "D", 2>> >> =>
              (Len(result.arbol) = 2 /\ result.coste_total = 3)

(***************************************************************************)
(* Properties of UnionFind, checked under SpecUF.                          *)
(***************************************************************************)

\* The last call was union(a, a).
SelfUnion == last.op = "union" /\ last.x = last.y

\* C3 as stated: union(a, a) returns false and leaves both the parent
\* mapping and the rank mapping exactly as they were before the call.
C3_SelfUnionChangesNothing ==
    SelfUnion =>
        /\ last.ret = FALSE
        /\ parent = last.preParent
        /\ rank = last.preRank

\* C3 amended: union(a, a) returns false, leaves the rank mapping exactly as
\* it was and leaves every element under the root it had; the parent mapping
\* changes only by the path compression of find(a): an element whose parent
\* changed lies on a's path to its root and now points directly to that root.
C3_SelfUnionOnlyCompresses ==
    SelfUnion =>
        /\ last.ret = FALSE
        /\ rank = last.preRank
        /\ \A v \in Elems : RootOf(parent, v) = RootOf(last.preParent, v)
        /\ \A v \in Elems :
              parent[v] # last.preParent[v] =>
                  /\ v \in Chain(last.preParent, last.x, NumElems)
                  /\ parent[v] = RootOf(last.preParent, last.x)

\* A self-union that did change the parent mapping.
C3_Witness == SelfUnion /\ last.ret = FALSE /\ parent # last.preParent

\* The last two calls were find(v), find(v).
FindTwice == last.op = "find" /\ prev.op = "find" /\ prev.x = last.x

\* C4: two consecutive calls find(v) return the same root, and the second
\* call changes neither the parent mapping nor the rank mapping; after the
\* first call every element of v's path points directly to the root.
C4_FindIdempotent ==
    FindTwice =>
        /\ last.ret = prev.ret
        /\ parent = last.preParent
        /\ rank = last.preRank
        /\ \A u \in Chain(last.preParent, last.x, NumElems) :
              last.preParent[u] = prev.ret

\* find(v) twice in a row, the first call having compressed v's path.
C4_Witness == FindTwice /\ prev.changed

\* The roots of the arguments of the last call, before the call.
PreRootX == RootOf(last.preParent, last.x)

PreRootY == RootOf(last.preParent, last.y)

\* The last call was union(a, b) with a and b under different roots.
MergingUnion == last.op = "union" /\ PreRootX # PreRootY

\* C8: union(a, b) with different roots ra, rb returns true and makes exactly
\* one of ra, rb the parent of the other: the root of strictly lower rank
\* goes under the root of higher rank with no rank changed; on equal ranks rb
\* goes under ra and rank[ra] grows by exactly one; no other rank changes,
\* and no other call (a find, a union of two elements under one root)
\* changes a rank.
C8_UnionByRank ==
    /\ (last.op # "none" /\ ~MergingUnion) => rank = last.preRank
    /\ MergingUnion =>
        LET ra == PreRootX
            rb == PreRootY
            rk == last.preRank
        IN  /\ last.ret = TRUE
            /\ (parent[ra] = rb) # (parent[rb] = ra)
            /\ IF rk[ra] < rk[rb]
               THEN parent[ra] = rb /\ parent[rb] = rb /\ rank = rk
               ELSE IF rk[ra] > rk[rb]
               THEN parent[rb] = ra /\ parent[ra] = ra /\ rank = rk
               ELSE /\ parent[rb] = ra
                    /\ parent[ra] = ra
                    /\ rank[ra] = rk[ra] + 1
                    /\ \A v \in Elems \ {ra} : rank[v] = rk[v]

\* A merging union whose first root has the strictly lower rank.
C8_Witness ==
    /\ MergingUnion
    /\ last.preRank[PreRootX] < last.preRank[PreRootY]
    /\ parent[PreRootX] = PreRootY

\* C9: the parent mapping is a forest (parent links from any element reach a
\* root without revisiting an element), and two elements are under the same
\* root exactly when they are linked by a chain of the pairs passed to union
\* so far; find calls therefore never change who shares a component.
C9_ForestMatchesUnions ==
    /\ \A x \in Elems : ReachesRoot(parent, x)
    /\ \A x, y \in Elems :
          (RootOf(parent, x) = RootOf(parent, y)) <=> (y \in comp[x])

\* A find has just changed the parent mapping (path compression) and every
\* element is still under the root it had before the call.
C9_Witness ==
    /\ last.op = "find"
    /\ parent # last.preParent
    /\ \A x \in Elems : RootOf(parent, x) = RootOf(last.preParent, x)

\* C10: ranks strictly increase along every parent link, so the length of a
\* parent chain is at most the rank of its root.
C10_RankIncreases ==
    /\ \A v \in Elems : parent[v] # v => rank[parent[v]] > rank[v]
    /\ \A v \in Elems :
          Cardinality(Chain(parent, v, NumElems)) - 1
              <= rank[RootOf(parent, v)]

\* A find has just compressed a path, and a non-root of positive rank sits
\* under a root of higher rank.
C10_Witness ==
    /\ last.op = "find"
    /\ parent # last.preParent
    /\ \E v \in Elems : parent[v] # v /\ rank[v] >= 1 /\ rank[parent[v]] >= 2

=============================================================================
